---- MODULE Spec2Model ----
(***************************************************************************)
(* Model of the Fiverr gig review extractor: the in-memory rate limiter    *)
(* (lib/rateLimiter.ts), the POST request handler that it gates, and the   *)
(* extraction orchestrator extractFiverrReviewsWithFallback                *)
(* (lib/scraper.ts).                                                       *)
(***************************************************************************)
EXTENDS Integers, Sequences, FiniteSets, TLC

VARIABLES
    constructed,    \* the RateLimiter instance exists (module rateLimiter.ts is loaded)
    windowMs,       \* RateLimiter.windowMs
    maxRequests,    \* RateLimiter.maxRequests
    limits,         \* RateLimiter.limits : Map<clientId, {count, resetTime}>
    clock,          \* Date.now()
    nextSweepAt,    \* due time of the setInterval timer that runs cleanup()
    last,           \* history: the call the rate limiter served at this instant
    callsInWindow,  \* history: isRateLimited calls per client since its window opened
    admitted,       \* history: calls per client admitted since its window opened
    reqs,           \* the POST handlers in flight, per client: how many await
                    \* request.json() and how many await the extraction
    response,       \* the response a POST handler sent at this instant
    exPc,           \* position inside extractFiverrReviewsWithFallback
    exUrl,          \* its url argument
    session,        \* the run of extractFiverrReviews: pending await, browser, clicks
    exDyn,          \* outcome of the extractFiverrReviews call
    exStatic,       \* outcomes of the extractFiverrReviewsStatic calls, in call order
    exCaught,       \* the error bound by the outer catch clause
    exResult,       \* what the call returned or threw
    fetches,        \* axios.get requests issued by extractFiverrReviewsStatic
    caller,         \* who called extractFiverrReviewsWithFallback
    answer,         \* the response of the POST handler that called it
    candidates,     \* the candidate review elements of a page, in document order
    scoredBy,       \* the extractor that scored them
    scored,         \* the records it emitted
    reviewsIn,      \* the argument of deduplicateReviews
    reviewsOut,     \* its result
    passes,         \* how many times it was applied
    csvReviews,     \* the argument of reviewsToCSV
    csv,            \* its result, as a sequence of pieces of text
    unswept,        \* the limits of a RateLimiter whose cleanup() is never run
    twin            \* what the last call returned on limits and on unswept

gateVars == <<constructed, windowMs, maxRequests, limits, clock, nextSweepAt,
              last, callsInWindow, admitted>>
exVars == <<exPc, exUrl, session, exDyn, exStatic, exCaught, exResult,
            fetches, caller, answer>>
pureVars == <<candidates, scoredBy, scored, reviewsIn, reviewsOut, passes,
              csvReviews, csv>>
twinVars == <<unswept, twin>>
vars == <<constructed, windowMs, maxRequests, limits, clock, nextSweepAt,
          last, callsInWindow, admitted, reqs, response,
          exPc, exUrl, session, exDyn, exStatic, exCaught, exResult,
          fetches, caller, answer,
          candidates, scoredBy, scored, reviewsIn, reviewsOut, passes,
          csvReviews, csv, unswept, twin>>

-----------------------------------------------------------------------------
(* Program constants                                                        *)

DefaultWindowMs == 60000
DefaultMaxRequests == 5
SweepIntervalMs == 30000

(* Bounds of the model                                                      *)

MaxClock == 120000
MaxCalls == 7

Clients == {"10.0.0.1", "unknown"}

\* Time that passes while the event loop is idle.
Delays == {SweepIntervalMs}
\* Time that passes between two Date.now() reads of one synchronous handler.
InCallDelays == {0, SweepIntervalMs}

-----------------------------------------------------------------------------
(* Map<string, RateLimitEntry>                                              *)

EmptyMap == [x \in {} |-> 0]

MapSet(m, k, v) == [x \in (DOMAIN m) \cup {k} |-> IF x = k THEN v ELSE m[x]]

MapDelete(m, k) == [x \in (DOMAIN m) \ {k} |-> m[x]]

-----------------------------------------------------------------------------
(* class RateLimiter                                                        *)

\* The constructor stores whatever it is given.
RateLimiter(w, n) == [windowMs |-> w, maxRequests |-> n]

\* Mutant: the limit test uses > instead of >=.
isRateLimitedOffByOne(lim, clientId, now) ==
    IF clientId \notin DOMAIN lim \/ lim[clientId].resetTime <= now
    THEN [limits |-> MapSet(lim, clientId, [count |-> 1, resetTime |-> now + windowMs]),
          limited |-> FALSE]
    ELSE IF lim[clientId].count > maxRequests
         THEN [limits |-> lim, limited |-> TRUE]
         ELSE [limits |-> MapSet(lim, clientId,
                                 [lim[clientId] EXCEPT !.count = @ + 1]),
               limited |-> FALSE]

\* Mutant: the window is treated as live at the very instant it expires.
isRateLimitedLateExpiry(lim, clientId, now) ==
    IF clientId \notin DOMAIN lim \/ lim[clientId].resetTime < now
    THEN [limits |-> MapSet(lim, clientId, [count |-> 1, resetTime |-> now + windowMs]),
          limited |-> FALSE]
    ELSE IF lim[clientId].count >= maxRequests
         THEN [limits |-> lim, limited |-> TRUE]
         ELSE [limits |-> MapSet(lim, clientId,
                                 [lim[clientId] EXCEPT !.count = @ + 1]),
               limited |-> FALSE]

\* Mutant: a new window replaces the whole map instead of one key.
isRateLimitedSharedMap(lim, clientId, now) ==
    IF clientId \notin DOMAIN lim \/ lim[clientId].resetTime <= now
    THEN [limits |-> MapSet(EmptyMap, clientId,
                            [count |-> 1, resetTime |-> now + windowMs]),
          limited |-> FALSE]
    ELSE IF lim[clientId].count >= maxRequests
         THEN [limits |-> lim, limited |-> TRUE]
         ELSE [limits |-> MapSet(lim, clientId,
                                 [lim[clientId] EXCEPT !.count = @ + 1]),
               limited |-> FALSE]

\* Mutant: the incremented count is not written back to the map.
isRateLimitedLostUpdate(lim, clientId, now) ==
    IF clientId \notin DOMAIN lim \/ lim[clientId].resetTime <= now
    THEN [limits |-> MapSet(lim, clientId, [count |-> 1, resetTime |-> now + windowMs]),
          limited |-> FALSE]
    ELSE IF lim[clientId].count >= maxRequests
         THEN [limits |-> lim, limited |-> TRUE]
         ELSE [limits |-> lim, limited |-> FALSE]

\* Mutant: a rejected call starts the client's window again.
isRateLimitedPushesReset(lim, clientId, now) ==
    IF clientId \notin DOMAIN lim \/ lim[clientId].resetTime <= now
    THEN [limits |-> MapSet(lim, clientId, [count |-> 1, resetTime |-> now + windowMs]),
          limited |-> FALSE]
    ELSE IF lim[clientId].count >= maxRequests
         THEN [limits |-> MapSet(lim, clientId,
                                 [lim[clientId] EXCEPT !.resetTime = now + windowMs]),
               limited |-> TRUE]
         ELSE [limits |-> MapSet(lim, clientId,
                                 [lim[clientId] EXCEPT !.count = @ + 1]),
               limited |-> FALSE]

\* isRateLimited: the map after the call and the value returned.
isRateLimited(lim, clientId, now) ==
    IF clientId \notin DOMAIN lim \/ lim[clientId].resetTime <= now
    THEN [limits |-> MapSet(lim, clientId, [count |-> 1, resetTime |-> now + windowMs]),
          limited |-> FALSE]
    ELSE IF lim[clientId].count >= maxRequests
         THEN [limits |-> lim, limited |-> TRUE]
         ELSE [limits |-> MapSet(lim, clientId,
                                 [lim[clientId] EXCEPT !.count = @ + 1]),
               limited |-> FALSE]

Max(a, b) == IF a >= b THEN a ELSE b

\* Mutant: the expiry of the window is not looked at.
getRemainingRequestsStale(lim, clientId, now) ==
    IF clientId \notin DOMAIN lim
    THEN maxRequests
    ELSE Max(0, maxRequests - lim[clientId].count)

getRemainingRequests(lim, clientId, now) ==
    IF clientId \notin DOMAIN lim \/ lim[clientId].resetTime <= now
    THEN maxRequests
    ELSE Max(0, maxRequests - lim[clientId].count)

\* getTimeRemaining reads the clock twice: now1 in the test, now2 in the result.
getTimeRemaining(lim, clientId, now1, now2) ==
    IF clientId \notin DOMAIN lim \/ lim[clientId].resetTime <= now1
    THEN 0
    ELSE lim[clientId].resetTime - now2

reset(lim, clientId) == MapDelete(lim, clientId)

\* Mutant: the sweep also drops the entries that expire within the next interval.
cleanupEager(lim, now) ==
    [x \in {k \in DOMAIN lim : ~(lim[k].resetTime <= now + SweepIntervalMs)} |-> lim[x]]

\* Mutant: the sweep drops every entry.
cleanupAll(lim, now) == EmptyMap

cleanup(lim, now) ==
    [x \in {k \in DOMAIN lim : ~(lim[k].resetTime <= now)} |-> lim[x]]

-----------------------------------------------------------------------------
(* History of the calls made on the rate limiter                            *)

\* What the client's entry was when the call read it.
PreState(lim, clientId, now) ==
    IF clientId \notin DOMAIN lim THEN "none"
    ELSE IF lim[clientId].resetTime <= now THEN "expired" ELSE "live"

PreCount(lim, clientId) ==
    IF clientId \in DOMAIN lim THEN lim[clientId].count ELSE 0

NoCall == [op |-> "none", client |-> "", now |-> 0, limited |-> FALSE,
           value |-> 0, preState |-> "none", preCount |-> 0]

\* The record of a call that read the clock at now (first read).
Called(op, clientId, now, limited, value) ==
    [op |-> op, client |-> clientId, now |-> now, limited |-> limited,
     value |-> value, preState |-> PreState(limits, clientId, now),
     preCount |-> PreCount(limits, clientId)]

\* The call opens a window: the client has no entry, or an expired one.
WindowOpens(lim, clientId, now) ==
    IF clientId \in DOMAIN lim THEN lim[clientId].resetTime <= now ELSE TRUE

\* An isRateLimited call at the current time, with the history it leaves.
Admission(clientId) ==
    LET r == isRateLimited(limits, clientId, clock)
        opens == WindowOpens(limits, clientId, clock)
    IN  /\ IF opens THEN TRUE ELSE callsInWindow[clientId] < MaxCalls
        /\ limits' = r.limits
        /\ last' = Called("isRateLimited", clientId, clock, r.limited, 0)
        /\ callsInWindow' = [callsInWindow EXCEPT
                                ![clientId] = IF opens THEN 1 ELSE @ + 1]
        /\ admitted' = [admitted EXCEPT
                           ![clientId] = IF opens THEN 1
                                         ELSE IF r.limited THEN @ ELSE @ + 1]

\* Deleted entries take their history with them.
Forget(hist, lim) == [c \in Clients |-> IF c \in DOMAIN lim THEN hist[c] ELSE 0]

-----------------------------------------------------------------------------
(* Operations of the rate limiter                                           *)

\* No call was made yet on the two rate limiters that are compared.
NoTwin == [op |-> "none", client |-> "", swept |-> 0, unswept |-> 0]

\* No response was sent at this instant.
NoResponse == [client |-> "", status |-> 0, retryAfter |-> 0]

\* Module load: const rateLimiter = new RateLimiter(w, n); setInterval(cleanup, 30000)
Construct(w, n) ==
    /\ ~constructed
    /\ constructed' = TRUE
    /\ windowMs' = RateLimiter(w, n).windowMs
    /\ maxRequests' = RateLimiter(w, n).maxRequests
    /\ nextSweepAt' = clock + SweepIntervalMs
    /\ UNCHANGED <<limits, clock, last, callsInWindow, admitted, reqs, response>>
    /\ UNCHANGED <<exVars, pureVars, twinVars>>

\* Time passes with the event loop idle; a due timer runs before more time
\* passes.  The history keeps a call and a response only for the instant
\* at which they were made.
Tick(d) ==
    /\ clock + d <= MaxClock
    /\ constructed => clock + d <= nextSweepAt
    /\ clock' = clock + d
    /\ last' = NoCall
    /\ response' = NoResponse
    /\ UNCHANGED <<constructed, windowMs, maxRequests, limits, nextSweepAt,
                   callsInWindow, admitted, reqs>>
    /\ UNCHANGED <<exVars, pureVars, twinVars>>

CallIsRateLimited(clientId) ==
    /\ constructed
    /\ Admission(clientId)
    /\ UNCHANGED <<constructed, windowMs, maxRequests, clock, nextSweepAt, reqs, response>>
    /\ UNCHANGED <<exVars, pureVars, twinVars>>

CallGetRemainingRequests(clientId) ==
    /\ constructed
    /\ last' = Called("getRemainingRequests", clientId, clock, FALSE,
                      getRemainingRequests(limits, clientId, clock))
    /\ UNCHANGED <<constructed, windowMs, maxRequests, limits, clock, nextSweepAt,
                   callsInWindow, admitted, reqs, response>>
    /\ UNCHANGED <<exVars, pureVars, twinVars>>

CallGetTimeRemaining(clientId, d) ==
    /\ constructed
    /\ clock + d <= MaxClock
    /\ last' = Called("getTimeRemaining", clientId, clock, FALSE,
                      getTimeRemaining(limits, clientId, clock, clock + d))
    /\ clock' = clock + d
    /\ UNCHANGED <<constructed, windowMs, maxRequests, limits, nextSweepAt,
                   callsInWindow, admitted, reqs, response>>
    /\ UNCHANGED <<exVars, pureVars, twinVars>>

CallReset(clientId) ==
    /\ constructed
    /\ limits' = reset(limits, clientId)
    /\ last' = Called("reset", clientId, clock, FALSE, 0)
    /\ callsInWindow' = Forget(callsInWindow, limits')
    /\ admitted' = Forget(admitted, limits')
    /\ UNCHANGED <<constructed, windowMs, maxRequests, clock, nextSweepAt, reqs, response>>
    /\ UNCHANGED <<exVars, pureVars, twinVars>>

\* The setInterval callback: rateLimiter.cleanup(), then the timer is re-armed.
Sweep ==
    /\ constructed
    /\ clock >= nextSweepAt
    /\ limits' = cleanup(limits, clock)
    /\ last' = Called("cleanup", "", clock, FALSE,
                      Cardinality(DOMAIN limits) - Cardinality(DOMAIN limits'))
    /\ callsInWindow' = Forget(callsInWindow, limits')
    /\ admitted' = Forget(admitted, limits')
    /\ nextSweepAt' = clock + SweepIntervalMs
    /\ UNCHANGED <<constructed, windowMs, maxRequests, clock, reqs, response>>
    /\ UNCHANGED <<exVars, pureVars, twinVars>>

-----------------------------------------------------------------------------
(* The rate limiter as shipped: new RateLimiter(60000, 5)                   *)

InitIdle ==
    /\ reqs = [c \in Clients |-> [json |-> 0, extract |-> 0]]
    /\ response = NoResponse
    /\ limits = EmptyMap
    /\ clock = 0
    /\ last = NoCall
    /\ callsInWindow = [c \in Clients |-> 0]
    /\ admitted = [c \in Clients |-> 0]
    /\ exPc = "idle"
    /\ exUrl = <<>>
    /\ session = [pc |-> "none", browser |-> "none", title |-> <<>>,
                  challenge |-> FALSE, waited |-> "no", clicks |-> 0,
                  reviews |-> <<>>, error |-> ""]
    /\ exDyn = [kind |-> "none", reviews |-> <<>>, message |-> ""]
    /\ exStatic = <<>>
    /\ exCaught = [kind |-> "none", reviews |-> <<>>, message |-> ""]
    /\ exResult = [kind |-> "none", reviews |-> <<>>, message |-> ""]
    /\ fetches = 0
    /\ caller = "none"
    /\ answer = [status |-> 0, reviews |-> <<>>, error |-> ""]

\* No page is being scored and no list is being deduplicated.
InitPure ==
    /\ candidates = <<>>
    /\ scoredBy = "none"
    /\ scored = <<>>
    /\ reviewsIn = <<>>
    /\ reviewsOut = <<>>
    /\ passes = 0
    /\ csvReviews = <<>>
    /\ csv = <<>>
    /\ unswept = EmptyMap
    /\ twin = NoTwin

Init ==
    /\ constructed = TRUE
    /\ windowMs = DefaultWindowMs
    /\ maxRequests = DefaultMaxRequests
    /\ nextSweepAt = SweepIntervalMs
    /\ InitIdle
    /\ InitPure

Next ==
    \/ \E d \in Delays : Tick(d)
    \/ \E c \in Clients : CallIsRateLimited(c)
    \/ \E c \in Clients : CallGetRemainingRequests(c)
    \/ \E c \in Clients, d \in InCallDelays : CallGetTimeRemaining(c, d)
    \/ \E c \in Clients : CallReset(c)
    \/ Sweep

Spec == Init /\ [][Next]_vars

-----------------------------------------------------------------------------
(* The request handler POST (app/api/extract route)                         *)

MaxInFlight == 2

\* request.headers.get('x-forwarded-for'): absent (null), empty, or an address.
HeaderAbsent == "<null>"
Headers == {HeaderAbsent, "", "10.0.0.1"}

\* const clientIP = request.headers.get('x-forwarded-for') || 'unknown'
ClientIP(header) == IF header = HeaderAbsent \/ header = "" THEN "unknown" ELSE header

\* A url is a sequence of text pieces; includes() looks for one piece.
FiverrUrl == <<"https://www.", "fiverr.com", "/seller/gig">>
OtherUrl == <<"https://www.", "example.com", "/seller/gig">>
EmptyUrl == <<>>
Urls == {FiverrUrl, OtherUrl, EmptyUrl}

Includes(url, piece) == \E i \in 1 .. Len(url) : url[i] = piece

\* Mutant: only the empty url is refused.
InvalidUrlEmptyOnly(url) == url = <<>>

\* !url || !url.includes('fiverr.com')
InvalidUrl(url) == url = <<>> \/ ~Includes(url, "fiverr.com")

\* What request.json() can do: throw on a malformed body, or give the url.
Bodies == {[ok |-> FALSE, url |-> EmptyUrl]} \cup {[ok |-> TRUE, url |-> u] : u \in Urls}

\* Handlers in flight, over all clients.
InFlight == LET Sum[S \in SUBSET Clients] ==
                    IF S = {} THEN 0
                    ELSE LET c == CHOOSE x \in S : TRUE
                         IN  reqs[c].json + reqs[c].extract + Sum[S \ {c}]
            IN  Sum[Clients]

Respond(clientId, status, retryAfter) ==
    [client |-> clientId, status |-> status, retryAfter |-> retryAfter]

\* A request arrives: the handler runs up to its first await.  The limiter is
\* asked at clock, getTimeRemaining reads the clock at clock + d1 and again
\* at clock + d1 + d2.
PostReceive(header, d1, d2) ==
    LET clientIP == ClientIP(header)
        limited == isRateLimited(limits, clientIP, clock).limited
        timeRemaining == getTimeRemaining(limits, clientIP, clock + d1, clock + d1 + d2)
    IN  /\ constructed
        /\ clock + d1 + d2 <= MaxClock
        /\ Admission(clientIP)
        /\ IF limited
           THEN /\ response' = Respond(clientIP, 429, timeRemaining)
                /\ clock' = clock + d1 + d2
                /\ reqs' = reqs
           ELSE /\ d1 = 0 /\ d2 = 0
                /\ InFlight < MaxInFlight
                /\ reqs' = [reqs EXCEPT ![clientIP].json = @ + 1]
                /\ response' = NoResponse
                /\ clock' = clock
        /\ UNCHANGED <<constructed, windowMs, maxRequests, nextSweepAt>>
        /\ UNCHANGED <<exVars, pureVars, twinVars>>

\* await request.json() settles: a throw is answered 500, a bad url 400, and a
\* good url starts extractFiverrReviewsWithFallback.
PostJson(clientId, body) ==
    /\ reqs[clientId].json > 0
    /\ IF ~body.ok
       THEN /\ reqs' = [reqs EXCEPT ![clientId].json = @ - 1]
            /\ response' = Respond(clientId, 500, 0)
       ELSE IF InvalidUrl(body.url)
       THEN /\ reqs' = [reqs EXCEPT ![clientId].json = @ - 1]
            /\ response' = Respond(clientId, 400, 0)
       ELSE /\ reqs' = [reqs EXCEPT ![clientId].json = @ - 1,
                                    ![clientId].extract = @ + 1]
            /\ response' = NoResponse
    /\ UNCHANGED gateVars
    /\ UNCHANGED <<exVars, pureVars, twinVars>>

\* await extractFiverrReviewsWithFallback(url) settles: the reviews are
\* deduplicated and answered 200, an error is answered 500.
PostExtracted(clientId, ok) ==
    /\ reqs[clientId].extract > 0
    /\ reqs' = [reqs EXCEPT ![clientId].extract = @ - 1]
    /\ response' = Respond(clientId, IF ok THEN 200 ELSE 500, 0)
    /\ UNCHANGED gateVars
    /\ UNCHANGED <<exVars, pureVars, twinVars>>

NextPost ==
    \/ \E d \in Delays : Tick(d)
    \/ Sweep
    \/ \E h \in Headers, d1, d2 \in InCallDelays : PostReceive(h, d1, d2)
    \/ \E c \in Clients, b \in Bodies : PostJson(c, b)
    \/ \E c \in Clients, ok \in BOOLEAN : PostExtracted(c, ok)

SpecPost == Init /\ [][NextPost]_vars

-----------------------------------------------------------------------------
(* Construction of a RateLimiter with arbitrary arguments                   *)

ConfigWindows == {0 - DefaultWindowMs, 0, DefaultWindowMs}
ConfigCapacities == {0 - 1, 0, 1, DefaultMaxRequests}

InitCtor ==
    /\ constructed = FALSE
    /\ windowMs = 0
    /\ maxRequests = 0
    /\ nextSweepAt = 0
    /\ InitIdle
    /\ InitPure

NextCtor ==
    \/ \E w \in ConfigWindows, n \in ConfigCapacities : Construct(w, n)
    \/ Next

SpecCtor == InitCtor /\ [][NextCtor]_vars

-----------------------------------------------------------------------------
(* The extraction orchestrator extractFiverrReviewsWithFallback             *)

MaxReviews == 2

\* A rating is held as a number of tenths of a star: 45 is the 4.5 of
\* '4.5 out of 5', 50 is five stars.
Tenths == 10

Review(reviewer, rating, text, date) ==
    [reviewer |-> reviewer, rating |-> rating, text |-> text, date |-> date]

SampleReviews ==
    {Review("John Doe", 5 * Tenths, "Great service!", "2023-10-15"),
     Review("Jane Smith", 4 * Tenths, "Good work", "2023-10-10"),
     Review("John Doe", 3 * Tenths, "Late delivery", "2023-11-02")}

\* The lists an extractor can return: both extractors drop a record they
\* have already emitted, so no record occurs twice.
ReviewLists ==
    {l \in UNION {[1 .. n -> SampleReviews] : n \in 0 .. MaxReviews} :
        \A i, j \in 1 .. Len(l) : l[i] = l[j] => i = j}

\* const identifier = `${review.reviewer}-${review.text}-${review.date}`
Identifier(review) == review.reviewer \o "-" \o review.text \o "-" \o review.date

\* The for loop of deduplicateReviews over the rest of its argument.
RECURSIVE DedupLoop(_, _, _)
DedupLoop(reviews, seen, uniqueReviews) ==
    IF reviews = <<>>
    THEN uniqueReviews
    ELSE LET review == Head(reviews)
         IN  IF Identifier(review) \in seen
             THEN DedupLoop(Tail(reviews), seen, uniqueReviews)
             ELSE DedupLoop(Tail(reviews), seen \cup {Identifier(review)},
                            Append(uniqueReviews, review))

\* Mutant: the last record of each identifier is kept.
deduplicateReviewsKeepsLast(reviews) ==
    LET Reverse(l) == [i \in 1 .. Len(l) |-> l[Len(l) + 1 - i]]
    IN  Reverse(DedupLoop(Reverse(reviews), {}, <<>>))

\* Mutant: one call drops only the first repeated record it meets.
deduplicateReviewsDropsOne(reviews) ==
    LET repeated == {i \in 1 .. Len(reviews) :
                        \E j \in 1 .. i - 1 :
                            Identifier(reviews[j]) = Identifier(reviews[i])}
        first == CHOOSE i \in repeated : \A j \in repeated : i <= j
    IN  IF repeated = {} THEN reviews
        ELSE SubSeq(reviews, 1, first - 1) \o SubSeq(reviews, first + 1, Len(reviews))

deduplicateReviews(reviews) == DedupLoop(reviews, {}, <<>>)

Ok(reviews) == [kind |-> "ok", reviews |-> reviews, message |-> ""]
Error(message) == [kind |-> "error", reviews |-> <<>>, message |-> message]
NoOutcome == [kind |-> "none", reviews |-> <<>>, message |-> ""]

Returned(reviews) == [kind |-> "returned", reviews |-> reviews, message |-> ""]
Thrown(message) == [kind |-> "thrown", reviews |-> <<>>, message |-> message]

\* const maxClicks = 50 in loadAllReviews
maxClicks == 50

\* A page title is a sequence of words; includes() looks for one word.
Titles == {<<"Fiverr", "gig">>, <<"human", "touch">>, <<"CAPTCHA">>,
           <<"captcha">>, <<"Security", "check">>}

\* pageTitle.includes('human') || ... || pageTitle.includes('Security')
ChallengeTitle(title) ==
    \/ Includes(title, "human")
    \/ Includes(title, "touch")
    \/ Includes(title, "CAPTCHA")
    \/ Includes(title, "Security")

\* title.includes('human') || title.includes('touch') || title.includes('CAPTCHA')
\* in extractFiverrReviewsStatic, which then returns [] at once.
StaticChallengeTitle(title) ==
    \/ Includes(title, "human")
    \/ Includes(title, "touch")
    \/ Includes(title, "CAPTCHA")

\* String.prototype.toLowerCase on the words of the titles.
toLowerCase(word) ==
    CASE word = "CAPTCHA" -> "captcha"
      [] word = "Security" -> "security"
      [] word = "Fiverr" -> "fiverr"
      [] OTHER -> word

\* How the scoring pass extractReviews(page) can end.
ScoringOutcomes ==
    {Ok(l) : l \in ReviewLists} \cup {Error("Execution context was destroyed")}

\* How a call of extractFiverrReviewsStatic (axios + cheerio) can end for a url.
StaticOutcomes(url) ==
    IF InvalidUrl(url)
    THEN {Error("Failed to fetch or parse page: " \o "Invalid Fiverr URL")}
    ELSE {Ok(l) : l \in ReviewLists}
            \cup {Error("Failed to fetch or parse page: " \o "timeout of 15000ms exceeded")}

Step(pc, caught, result) == [pc |-> pc, caught |-> caught, result |-> result]

\* Mutant: a single review does not count as a result.
AfterDynamicNeedsTwo(out) ==
    IF out.kind = "error" THEN Step("static_catch", out, NoOutcome)
    ELSE IF Len(out.reviews) > 1 THEN Step("returned", NoOutcome, Returned(out.reviews))
    ELSE Step("static_try", NoOutcome, NoOutcome)

\* try { reviews = await extractFiverrReviews(url); if (reviews.length > 0) return reviews;
\*       staticReviews = await extractFiverrReviewsStatic(url) ... } catch (error) { ... }
AfterDynamic(out) ==
    IF out.kind = "error" THEN Step("static_catch", out, NoOutcome)
    ELSE IF Len(out.reviews) > 0 THEN Step("returned", NoOutcome, Returned(out.reviews))
    ELSE Step("static_try", NoOutcome, NoOutcome)

\* Mutant: an empty fallback result is raised as an error.
AfterStaticTryEmptyThrows(out) ==
    IF out.kind = "error" THEN Step("static_catch", out, NoOutcome)
    ELSE IF Len(out.reviews) > 0 THEN Step("returned", NoOutcome, Returned(out.reviews))
    ELSE Step("static_catch", Error("No reviews found with either method"), NoOutcome)

\* The static call inside the try block: a throw is caught by the same
\* catch clause as a throw of the dynamic call.
AfterStaticTry(out) ==
    IF out.kind = "error" THEN Step("static_catch", out, NoOutcome)
    ELSE IF Len(out.reviews) > 0 THEN Step("returned", NoOutcome, Returned(out.reviews))
    ELSE Step("returned", NoOutcome, Returned(<<>>))

\* Mutant: the catch clause rethrows without looking at the fallback result.
AfterStaticCatchIgnoresFallback(caught, out) ==
    Step("thrown", caught, Thrown(caught.message))

\* Mutant: when the fallback throws, its error is the one that is thrown.
AfterStaticCatchThrowsFallback(caught, out) ==
    IF out.kind = "ok" /\ Len(out.reviews) > 0
    THEN Step("returned", NoOutcome, Returned(out.reviews))
    ELSE IF out.kind = "error" THEN Step("thrown", out, Thrown(out.message))
    ELSE Step("thrown", caught, Thrown(caught.message))

\* The static call inside the catch clause: records are returned, an empty
\* list or a throw rethrows the caught error.
AfterStaticCatch(caught, out) ==
    IF out.kind = "ok" /\ Len(out.reviews) > 0
    THEN Step("returned", NoOutcome, Returned(out.reviews))
    ELSE Step("thrown", caught, Thrown(caught.message))

\* Calls of extractFiverrReviewsStatic made so far.
StaticInvocations ==
    Len(exStatic) + (IF exPc \in {"static_try", "static_catch"} THEN 1 ELSE 0)

\* axios.get requests one call extractFiverrReviewsStatic(url) issues: the
\* url is validated first.
StaticFetches(url) == IF InvalidUrl(url) THEN 0 ELSE 1

\* The caller of extractFiverrReviews resumes with its outcome, and runs up to
\* the await inside extractFiverrReviewsStatic(url) if it calls it.
DynamicSettles(url, out) ==
    /\ exDyn' = out
    /\ fetches' = fetches + (IF AfterDynamic(out).pc \in {"static_try", "static_catch"}
                             THEN StaticFetches(url) ELSE 0)
    /\ exPc' = AfterDynamic(out).pc
    /\ exCaught' = AfterDynamic(out).caught
    /\ exResult' = AfterDynamic(out).result

\* extractFiverrReviewsWithFallback(url) calls extractFiverrReviews(url), which
\* throws on a bad url before any launch.
StartExtraction(url) ==
    /\ exUrl' = url
    /\ IF InvalidUrl(url)
       THEN /\ DynamicSettles(url, Error("Invalid Fiverr URL"))
            /\ session' = [session EXCEPT !.pc = "done"]
       ELSE /\ exPc' = "dynamic"
            /\ session' = [session EXCEPT !.pc = "launch"]
            /\ UNCHANGED <<exDyn, exCaught, exResult, fetches>>
    /\ UNCHANGED exStatic

\* extractFiverrReviewsWithFallback(url) is called by a script.
ExtractStart(url) ==
    /\ caller = "none"
    /\ caller' = "script"
    /\ StartExtraction(url)
    /\ UNCHANGED answer
    /\ UNCHANGED <<gateVars, reqs, response, pureVars, twinVars>>

Answer(status, reviews, error) == [status |-> status, reviews |-> reviews, error |-> error]

\* In an admitted POST handler await request.json() settles: a throw is
\* answered 500, a bad url 400, and a good url is passed on to
\* extractFiverrReviewsWithFallback.
HandlerJson(body) ==
    /\ caller = "none"
    /\ caller' = "POST"
    /\ IF ~body.ok
       THEN /\ answer' = Answer(500, <<>>, "Unexpected end of JSON input")
            /\ UNCHANGED <<exPc, exUrl, session, exDyn, exStatic, exCaught, exResult, fetches>>
       ELSE IF InvalidUrl(body.url)
       THEN /\ answer' = Answer(400, <<>>, "Please provide a valid Fiverr URL")
            /\ exUrl' = body.url
            /\ UNCHANGED <<exPc, session, exDyn, exStatic, exCaught, exResult, fetches>>
       ELSE /\ StartExtraction(body.url)
            /\ UNCHANGED answer
    /\ UNCHANGED <<gateVars, reqs, response, pureVars, twinVars>>

\* await extractFiverrReviewsWithFallback(url) settles in the handler: the
\* reviews are deduplicated and answered 200, an error is answered 500.
HandlerAnswers ==
    /\ caller = "POST"
    /\ exPc \in {"returned", "thrown"}
    /\ answer.status = 0
    /\ answer' = IF exPc = "returned"
                 THEN Answer(200, deduplicateReviews(exResult.reviews), "")
                 ELSE Answer(500, <<>>, exResult.message)
    /\ UNCHANGED <<exPc, exUrl, session, exDyn, exStatic, exCaught, exResult, fetches, caller>>
    /\ UNCHANGED <<gateVars, reqs, response, pureVars, twinVars>>

\* await puppeteer.launch(...)
DynLaunch(ok) ==
    /\ exPc = "dynamic" /\ session.pc = "launch"
    /\ IF ok
       THEN /\ session' = [session EXCEPT !.pc = "newPage", !.browser = "open"]
            /\ UNCHANGED <<exPc, exDyn, exCaught, exResult, fetches>>
       ELSE /\ session' = [session EXCEPT !.pc = "done"]
            /\ DynamicSettles(exUrl, Error("Failed to launch the browser process"))
    /\ UNCHANGED <<exUrl, exStatic>>
    /\ UNCHANGED <<caller, answer>>
    /\ UNCHANGED <<gateVars, reqs, response, pureVars, twinVars>>

\* await browser.newPage(), which stands before the try block.
DynNewPage(ok) ==
    /\ exPc = "dynamic" /\ session.pc = "newPage"
    /\ IF ok
       THEN /\ session' = [session EXCEPT !.pc = "setUserAgent"]
            /\ UNCHANGED <<exPc, exDyn, exCaught, exResult, fetches>>
       ELSE /\ session' = [session EXCEPT !.pc = "done"]
            /\ DynamicSettles(exUrl, Error("Protocol error (Target.createTarget): Target closed"))
    /\ UNCHANGED <<exUrl, exStatic>>
    /\ UNCHANGED <<caller, answer>>
    /\ UNCHANGED <<gateVars, reqs, response, pureVars, twinVars>>

\* The rejection of browser.close().
CloseError == "Protocol error (Browser.close): Target closed"

\* The rejection of a call on the page once its context is gone.
PageError == "Execution context was destroyed"

\* The run moves on to its next await; nothing is settled yet.
DynGoes(next) ==
    /\ session' = [session EXCEPT !.pc = next]
    /\ UNCHANGED <<exPc, exDyn, exCaught, exResult, fetches>>

\* A rejection inside the try block of extractFiverrReviews enters the catch
\* clause, which first awaits browser.close(): the browser is still open.
DynFails(inner) ==
    /\ session' = [session EXCEPT !.pc = "catchClose", !.error = inner]
    /\ UNCHANGED <<exPc, exDyn, exCaught, exResult, fetches>>

\* What the steps of the run leave alone.
DynFrame ==
    /\ UNCHANGED <<exUrl, exStatic>>
    /\ UNCHANGED <<caller, answer>>
    /\ UNCHANGED <<gateVars, reqs, response, pureVars, twinVars>>

\* An awaited call on the page inside the try block resolves or rejects.
PageAwait(at, next, ok, message) ==
    /\ exPc = "dynamic" /\ session.pc = at
    /\ IF ok THEN DynGoes(next) ELSE DynFails(message)
    /\ DynFrame

\* await page.setUserAgent(...)
DynSetUserAgent(ok) ==
    PageAwait("setUserAgent", "setViewport", ok,
              "Protocol error (Network.setUserAgentOverride): Target closed")

\* await page.setViewport({ width: 1920, height: 1080 })
DynSetViewport(ok) ==
    PageAwait("setViewport", "evaluateOnNewDocument", ok,
              "Protocol error (Emulation.setDeviceMetricsOverride): Target closed")

\* await page.evaluateOnNewDocument(...)
DynEvaluateOnNewDocument(ok) ==
    PageAwait("evaluateOnNewDocument", "navigate", ok,
              "Protocol error (Page.addScriptToEvaluateOnNewDocument): Target closed")

\* await page.goto(url, { waitUntil: 'networkidle2', timeout: 30000 })
DynNavigate(ok) ==
    PageAwait("navigate", "sleepLoaded", ok, "Navigation timeout of 30000 ms exceeded")

\* Mutant: the loop goes round again when clickCount has reached maxClicks.
AfterSleepCeilingIncluded(pc, clicks) ==
    CASE pc = "sleepLoaded" -> "title"
      [] pc = "sleepSettled" -> "scroll"
      [] pc = "sleepScrolled" -> "sleepPass"
      [] pc = "sleepPass" -> "loopScroll"
      [] pc = "sleepScrolledTo" -> "findButton"
      [] pc = "sleepClicked" -> "scrollBy"
      [] pc = "sleepRendered" -> IF clicks <= maxClicks THEN "sleepPass" ELSE "sleepFinished"
      [] pc = "sleepFinished" -> "finalScroll"
      [] pc = "sleepFinal" -> "scoring"

\* Where the run stands after each await sleep(ms).  sleepScrolled is the
\* sleep(3000) before loadAllReviews followed by the sleep(2000) that opens
\* its first pass; sleepRendered ends a pass and is followed by the test
\* while (clickCount < maxClicks).
AfterSleep(pc, clicks) ==
    CASE pc = "sleepLoaded" -> "title"
      [] pc = "sleepSettled" -> "scroll"
      [] pc = "sleepScrolled" -> "sleepPass"
      [] pc = "sleepPass" -> "loopScroll"
      [] pc = "sleepScrolledTo" -> "findButton"
      [] pc = "sleepClicked" -> "scrollBy"
      [] pc = "sleepRendered" -> IF clicks < maxClicks THEN "sleepPass" ELSE "sleepFinished"
      [] pc = "sleepFinished" -> "finalScroll"
      [] pc = "sleepFinal" -> "scoring"

Sleeps == {"sleepLoaded", "sleepSettled", "sleepScrolled", "sleepPass", "sleepScrolledTo",
           "sleepClicked", "sleepRendered", "sleepFinished", "sleepFinal"}

\* await sleep(ms): the timer fires; it cannot reject.
DynSleep ==
    /\ exPc = "dynamic" /\ session.pc \in Sleeps
    /\ DynGoes(AfterSleep(session.pc, session.clicks))
    /\ DynFrame

\* const pageTitle = await page.title(); the test for a CAPTCHA challenge.
DynTitle(title) ==
    /\ exPc = "dynamic" /\ session.pc = "title"
    /\ session' = [session EXCEPT
                       !.pc = IF ChallengeTitle(title) THEN "challenge" ELSE "sleepSettled",
                       !.title = title,
                       !.challenge = ChallengeTitle(title)]
    /\ UNCHANGED <<exPc, exDyn, exCaught, exResult, fetches>>
    /\ DynFrame

\* await page.title() rejects.
DynTitleFails ==
    PageAwait("title", "title", FALSE, PageError)

\* Mutant: the timeout of the wait is not caught.
DynChallengeWaitTimeoutThrows(resolved) ==
    /\ exPc = "dynamic" /\ session.pc = "challenge"
    /\ IF resolved
       THEN /\ session' = [session EXCEPT !.pc = "sleepSettled", !.waited = "resolved"]
            /\ UNCHANGED <<exPc, exDyn, exCaught, exResult, fetches>>
       ELSE /\ session' = [session EXCEPT !.pc = "catchClose", !.waited = "timeout",
                                          !.error = "Waiting failed: 120000ms exceeded"]
            /\ UNCHANGED <<exPc, exDyn, exCaught, exResult, fetches>>
    /\ DynFrame

\* page.waitForFunction(..., {timeout: 120000}) resolves, or rejects (the
\* timeout) and the rejection is caught: the run goes on either way.
DynChallengeWait(resolved) ==
    /\ exPc = "dynamic" /\ session.pc = "challenge"
    /\ session' = [session EXCEPT !.pc = "sleepSettled",
                                  !.waited = IF resolved THEN "resolved" ELSE "timeout"]
    /\ UNCHANGED <<exPc, exDyn, exCaught, exResult, fetches>>
    /\ DynFrame

\* await page.evaluate(() => window.scrollTo(0, document.body.scrollHeight * 0.7))
DynScroll(ok) ==
    PageAwait("scroll", "sleepScrolled", ok, PageError)

\* An awaited call inside the try of a pass of loadAllReviews resolves, or
\* rejects and the catch clause of the pass breaks out of the loop.
LoadAwait(at, next, ok) ==
    /\ exPc = "dynamic" /\ session.pc = at
    /\ DynGoes(IF ok THEN next ELSE "sleepFinished")
    /\ DynFrame

\* await page.evaluate(...) that scrolls to the reviews section.
LoadScroll(ok) ==
    LoadAwait("loopScroll", "sleepScrolledTo", ok)

\* How the search for the "Show More" button can end.
ButtonOutcomes == {"found", "none", "error"}

\* showMoreButton = await page.evaluateHandle(...); no button: break.
LoadFindButton(outcome) ==
    /\ outcome \in ButtonOutcomes
    /\ LoadAwait("findButton", IF outcome = "found" THEN "click" ELSE "sleepFinished",
                 outcome # "error")

\* await showMoreButton.click(); clickCount++
LoadClick(ok) ==
    /\ exPc = "dynamic" /\ session.pc = "click"
    /\ session' = IF ok
                  THEN [session EXCEPT !.pc = "sleepClicked", !.clicks = session.clicks + 1]
                  ELSE [session EXCEPT !.pc = "sleepFinished"]
    /\ UNCHANGED <<exPc, exDyn, exCaught, exResult, fetches>>
    /\ DynFrame

\* await page.evaluate(() => window.scrollBy(0, 300))
LoadScrollBy(ok) ==
    LoadAwait("scrollBy", "sleepRendered", ok)

\* await page.evaluate(() => window.scrollTo(0, document.body.scrollHeight))
DynFinalScroll(ok) ==
    PageAwait("finalScroll", "sleepFinal", ok, PageError)

\* const reviews = await extractReviews(page)
DynScoring(out) ==
    /\ exPc = "dynamic" /\ session.pc = "scoring"
    /\ out \in ScoringOutcomes
    /\ IF out.kind = "ok"
       THEN /\ session' = [session EXCEPT !.pc = "close", !.reviews = out.reviews]
            /\ UNCHANGED <<exPc, exDyn, exCaught, exResult, fetches>>
       ELSE DynFails(out.message)
    /\ DynFrame

\* await browser.close(); return reviews: a rejection of the close is
\* caught by the catch clause like any other.
DynClose(ok) ==
    /\ exPc = "dynamic" /\ session.pc = "close"
    /\ IF ok
       THEN /\ session' = [session EXCEPT !.pc = "done", !.browser = "closed"]
            /\ DynamicSettles(exUrl, Ok(session.reviews))
       ELSE DynFails(CloseError)
    /\ DynFrame

\* catch (error) { await browser.close(); throw new Error(`Failed to extract
\* reviews: ${error.message}`) }: when the close rejects, its rejection is
\* what the call throws and the browser stays open.
DynCatchClose(ok) ==
    /\ exPc = "dynamic" /\ session.pc = "catchClose"
    /\ IF ok
       THEN /\ session' = [session EXCEPT !.pc = "done", !.browser = "closed"]
            /\ DynamicSettles(exUrl, Error("Failed to extract reviews: " \o session.error))
       ELSE /\ session' = [session EXCEPT !.pc = "done"]
            /\ DynamicSettles(exUrl, Error(CloseError))
    /\ DynFrame

StaticTrySettles(out) ==
    /\ exPc = "static_try"
    /\ out \in StaticOutcomes(exUrl)
    /\ exStatic' = Append(exStatic, out)
    /\ exPc' = AfterStaticTry(out).pc
    /\ exCaught' = AfterStaticTry(out).caught
    /\ exResult' = AfterStaticTry(out).result
    /\ fetches' = fetches + (IF AfterStaticTry(out).pc = "static_catch"
                             THEN StaticFetches(exUrl) ELSE 0)
    /\ UNCHANGED <<exUrl, session, exDyn>>
    /\ UNCHANGED <<caller, answer>>
    /\ UNCHANGED <<gateVars, reqs, response, pureVars, twinVars>>

StaticCatchSettles(out) ==
    /\ exPc = "static_catch"
    /\ out \in StaticOutcomes(exUrl)
    /\ exStatic' = Append(exStatic, out)
    /\ exPc' = AfterStaticCatch(exCaught, out).pc
    /\ exCaught' = AfterStaticCatch(exCaught, out).caught
    /\ exResult' = AfterStaticCatch(exCaught, out).result
    /\ UNCHANGED fetches
    /\ UNCHANGED <<exUrl, session, exDyn>>
    /\ UNCHANGED <<caller, answer>>
    /\ UNCHANGED <<gateVars, reqs, response, pureVars, twinVars>>

NextExtract ==
    \/ \E u \in Urls : ExtractStart(u)
    \/ \E b \in Bodies : HandlerJson(b)
    \/ HandlerAnswers
    \/ \E ok \in BOOLEAN : DynLaunch(ok)
    \/ \E ok \in BOOLEAN : DynNewPage(ok)
    \/ \E ok \in BOOLEAN : DynSetUserAgent(ok)
    \/ \E ok \in BOOLEAN : DynSetViewport(ok)
    \/ \E ok \in BOOLEAN : DynEvaluateOnNewDocument(ok)
    \/ \E ok \in BOOLEAN : DynNavigate(ok)
    \/ DynSleep
    \/ \E t \in Titles : DynTitle(t)
    \/ DynTitleFails
    \/ \E resolved \in BOOLEAN : DynChallengeWait(resolved)
    \/ \E ok \in BOOLEAN : DynScroll(ok)
    \/ \E ok \in BOOLEAN : LoadScroll(ok)
    \/ \E o \in ButtonOutcomes : LoadFindButton(o)
    \/ \E ok \in BOOLEAN : LoadClick(ok)
    \/ \E ok \in BOOLEAN : LoadScrollBy(ok)
    \/ \E ok \in BOOLEAN : DynFinalScroll(ok)
    \/ \E o \in ScoringOutcomes : DynScoring(o)
    \/ \E ok \in BOOLEAN : DynClose(ok)
    \/ \E ok \in BOOLEAN : DynCatchClose(ok)
    \/ \E o \in StaticOutcomes(exUrl) : StaticTrySettles(o)
    \/ \E o \in StaticOutcomes(exUrl) : StaticCatchSettles(o)

SpecExtract == Init /\ [][NextExtract]_vars

-----------------------------------------------------------------------------
(* The scoring passes: extractReviews (in the rendered page) and the loop   *)
(* of extractFiverrReviewsStatic (over the fetched document)                *)

\* Text of a page is held as a sequence of characters.
MaxStars == 5
NoMatch == 0 - 1

MaxCandidates == 2

Repeat(ch, n) == [i \in 1 .. n |-> ch]
Take(text, n) == SubSeq(text, 1, IF Len(text) < n THEN Len(text) ELSE n)

\* The string made of the characters of a text.
RECURSIVE Str(_)
Str(text) == IF text = <<>> THEN "" ELSE Head(text) \o Str(Tail(text))

\* A node of an element that the rating strategies can look at:
\*   class       "rating" (class rating), "star" (a class holding 'star'),
\*               "svg" (an svg element) or "none"
\*   label       the first number of its aria-label 'N out of 5' or
\*               'N out of 5 stars' in tenths, NoMatch without aria-label
\*   labelStars  its aria-label holds 'star'
\*   text        the first number of its text like '4.4/5', or NoMatch
\*   filled      its outerHTML holds 'fill', '★', 'full' or 'active'
\*   glyph       its text holds ★ or ☆
RatingNode(class, label, labelStars, text, filled, glyph) ==
    [class |-> class, label |-> label, labelStars |-> labelStars, text |-> text,
     filled |-> filled, glyph |-> glyph]

\* A node of an element that the text strategies can look at: class is
\* "testid:review-content" (data-testid), "review-content",
\* "review-description", "review-text", "comment" (classes) or "p"; text is
\* its textContent as it stands in the page, white space included.
TextNode(class, text) == [class |-> class, text |-> text]

\* String.prototype.trim: the text without the white space and the line
\* terminators at its two ends.  whiteSpace holds the space, tab, line feed,
\* carriage return and form feed, and on its second line the no-break space
\* U+00A0, the ogham space U+1680, the byte order mark U+FEFF and the
\* vertical tab U+000B, written as they are.  The other characters trim
\* strips (U+2000 to U+200A, U+2028, U+2029, U+202F, U+205F, U+3000) cannot
\* stand in a string of this module, so no text of the model holds one.
trim(text) ==
    LET whiteSpace == {" ", "\t", "\n", "\r", "\f",
                       " ", " ", "﻿", ""}
        inked == {i \in 1 .. Len(text) : text[i] \notin whiteSpace}
    IN  IF inked = {} THEN <<>>
        ELSE SubSeq(text, CHOOSE i \in inked : \A j \in inked : i <= j,
                          CHOOSE i \in inked : \A j \in inked : j <= i)

\* n star elements (span.star), all filled with ★ or all empty.
Stars(n, filled) ==
    [i \in 1 .. n |-> RatingNode("star", NoMatch, FALSE, NoMatch, filled, filled)]

\* What the scoring passes find in one div of the page, its nodes in
\* document order:
\*   reviewer    the name the reviewer strategies yield, trimmed
\*   ratings     its nodes with rating information
\*   texts       its nodes with review text
\*   date        the date the date strategies yield
\*   holder      its class
\*   pagination  its text holds 'show more reviews', 'load more', ...
\*   container   it has an avatar, a date element and review words and
\*               no navigation: the container test of the static pass
\*               but for the stars
\*   keywords    its text is longer than 50 characters and holds a review
\*               word of the text-based approach of extractReviews
\* No text of the model but a rating text holds a number followed by '/'
\* or 'out of'.
Element(reviewer, ratings, texts, date) ==
    [reviewer |-> reviewer, ratings |-> ratings, texts |-> texts, date |-> date,
     holder |-> "review-item-component", pagination |-> FALSE, container |-> TRUE,
     keywords |-> TRUE]

Ann == <<"a", "n", "n">>
Day == <<"1", " ", "d", "a", "y">>
LongText(ending) == Repeat("x", 50) \o ending
ShortText == Repeat("y", 15)

Elements ==
    LET Label(v) == <<RatingNode("rating", v, TRUE, NoMatch, FALSE, FALSE)>>
        Text(v) == <<RatingNode("rating", NoMatch, FALSE, v, FALSE, FALSE)>>
        Content(t) == <<TextNode("testid:review-content", t)>>
        P(t) == <<TextNode("p", t)>>
        Padded(t) == <<" ">> \o t \o <<" ">>
        Plain == Element(Ann, Label(50) \o Stars(5, TRUE), Content(LongText(<<"a">>)), Day)
    IN  {Plain,
         Element(Ann, Label(45) \o Stars(5, TRUE), Content(LongText(<<"b">>)), Day),
         Element(Ann, Label(100), P(LongText(<<"c">>)), Day),
         Element(Ann, Label(4) \o Stars(3, TRUE), Content(LongText(<<"d">>)), <<>>),
         Element(Ann, Label(0) \o Stars(7, TRUE), Content(LongText(<<"e">>)), Day),
         Element(Ann, Text(44), Content(ShortText) \o P(LongText(<<"f">>)), Day),
         Element(Ann, Text(46), Content(ShortText), Day),
         Element(Ann, <<>>, Content(LongText(<<"g">>)), Day),
         Element(Ann, Text(0), Content(LongText(<<"h">>)), Day),
         Element(<<>>, Label(50) \o Stars(5, TRUE), Content(LongText(<<"i">>)), Day),
         Element(Ann, Label(50) \o Stars(5, TRUE), <<>>, Day),
         Element(Ann, Label(50) \o Stars(5, TRUE), Content(Repeat("z", 8)) \o P(ShortText), Day),
         Element(<<"a", "-", "b">>, Label(50), Content(LongText(<<"l">>)), Day),
         Element(<<"a">>, Label(50), Content(<<"b", "-">> \o LongText(<<"l">>)), Day),
         [Element(Ann, Label(50), Content(LongText(<<"j">>)), Day) EXCEPT !.pagination = TRUE],
         [Element(Ann, Label(50), Content(LongText(<<"k">>)), Day) EXCEPT !.container = FALSE],
         Element(Ann, Stars(5, FALSE), Content(LongText(<<"m">>)), Day),
         Element(Ann, Stars(3, TRUE) \o Stars(2, FALSE), Content(LongText(<<"n">>)), Day),
         Element(Ann, Stars(2, TRUE) \o Stars(5, FALSE), Content(LongText(<<"o">>)), Day),
         Element(Ann, Label(50), P(ShortText) \o P(Repeat("w", 40)), Day),
         Element(Ann, Label(50), P(LongText(<<"p">>)) \o P(LongText(<<"q">>)), Day),
         Element(Ann, Label(50),
                 Content(Repeat("s", 5)) \o <<TextNode("review-text", LongText(<<"r">>))>>, Day),
         Element(Ann, Text(44) \o <<RatingNode("star", 20, TRUE, NoMatch, FALSE, FALSE)>>,
                 Content(LongText(<<"s">>)), Day),
         Element(Ann, <<RatingNode("none", 45, FALSE, NoMatch, FALSE, FALSE)>> \o Stars(3, TRUE),
                 Content(LongText(<<"t">>)), Day),
         Element(Ann, <<RatingNode("none", NoMatch, FALSE, 44, FALSE, FALSE),
                        RatingNode("rating", NoMatch, FALSE, NoMatch, FALSE, TRUE)>>,
                 Content(LongText(<<"u">>)), Day),
         Element(Ann, Label(50), Content(<<>>) \o Content(LongText(<<"z">>)), Day),
         Element(Ann, Label(50), P(Padded(Repeat("a", 10))) \o P(Padded(Repeat("b", 10))), Day),
         Element(Ann, Label(50), Content(Padded(Repeat("c", 11))), Day),
         Element(Ann, Label(50), Content(<<"\n">> \o Repeat("d", 10) \o <<"\t">>), Day),
         Element(Ann, Label(50), Content(<<"\n", " ">> \o Repeat("e", 11) \o <<"\r", "\n">>), Day),
         Element(Ann, Label(50), P(<<"\n">> \o Repeat("f", 20) \o <<"\n">>), Day),
         Element(Ann, Label(50),
                 P(<<"\n">> \o Repeat("g", 10) \o <<"\n">>)
                     \o P(<<"\n">> \o Repeat("h", 10) \o <<"\n">>), Day),
         [Element(Ann, Label(40) \o Stars(4, TRUE), Content(LongText(<<"a">>)), Day)
              EXCEPT !.holder = "feedback-item"],
         [Element(Ann, Label(30) \o Stars(3, TRUE), Content(LongText(<<"v">>)), Day)
              EXCEPT !.holder = "testimonial"],
         [Element(Ann, Label(20) \o Stars(2, TRUE), Content(LongText(<<"y">>)), Day)
              EXCEPT !.holder = "none"]}

ElementLists == UNION {[1 .. n -> Elements] : n \in 0 .. MaxCandidates}

\* Math.round of a non-negative number.
MathRound(t) == ((t + (Tenths \div 2)) \div Tenths) * Tenths

\* Math.min
Min(a, b) == IF a < b THEN a ELSE b

\* Mutant: the review text is not essential.
EssentialNoText(reviewer, rating, text) == reviewer # <<>> /\ rating > 0

\* reviewerName && rating > 0 && reviewText
Essential(reviewer, rating, text) == reviewer # <<>> /\ rating > 0 /\ text # <<>>

\* The elements extractReviews goes through: those of each container
\* selector in the order of the selectors, or else those with a review
\* class, or else those whose text looks like a review.  The selectors that
\* name an ancestor, a card class or a data-testid select no div of the model.
reviewElements(elements) ==
    LET reviewContainerSelectors ==
            <<{}, {"review-item-component"}, {"carousel-review-item"}, {}, {}, {},
              {"review-item-component", "carousel-review-item"}, {},
              {"review-container"}, {"feedback-item"}>>
        reviewClassPatterns ==
            {"review-item-component", "carousel-review-item", "review-container",
             "feedback-item", "testimonial"}
        bySelector[i \in 0 .. Len(reviewContainerSelectors)] ==
            IF i = 0 THEN <<>>
            ELSE LET Selected(el) == el.holder \in reviewContainerSelectors[i]
                 IN  bySelector[i - 1] \o SelectSeq(elements, Selected)
        HasPattern(el) == el.holder \in reviewClassPatterns
        LikeReview(el) ==
            el.keywords /\ \E k \in 1 .. Len(el.ratings) : el.ratings[k].glyph
        first == bySelector[Len(reviewContainerSelectors)]
        second == SelectSeq(elements, HasPattern)
    IN  IF first # <<>> THEN first
        ELSE IF second # <<>> THEN second
        ELSE SelectSeq(elements, LikeReview)

\* The rating strategies of extractReviews: the aria-label of the first
\* element that has one, then the filled stars, then the rating text.
DynamicRating(el) ==
    LET Labelled(node) == node.label # NoMatch
        ratingElement == SelectSeq(el.ratings, Labelled)
        aria == IF ratingElement # <<>> THEN Head(ratingElement).label ELSE 0
        Filled(node) == node.class \in {"svg", "star"} /\ node.filled
        filledStars == Len(SelectSeq(el.ratings, Filled))
        counted == IF aria = 0 THEN Min(MaxStars, filledStars) * Tenths ELSE aria
        Rated(node) == node.text # NoMatch
        ratingMatch == SelectSeq(el.ratings, Rated)
    IN  IF counted = 0 /\ ratingMatch # <<>>
        THEN MathRound(Head(ratingMatch).text)
        ELSE counted

\* The review text strategies of extractReviews: for each text selector the
\* first element it selects (querySelector) and no other, then the p
\* elements one by one (none of the texts of the model holds 'show more',
\* 'load more', 'see all' or 'view all').
DynamicText(el) ==
    LET textSelectors ==
            <<"testid:review-content", "testid:review-comment", "review-item-description",
              "review-description", "review-text", "comment">>
        bySelector[i \in 1 .. Len(textSelectors) + 1] ==
            IF i > Len(textSelectors) THEN <<>>
            ELSE LET Selected(node) == node.class = textSelectors[i]
                     selected == SelectSeq(el.texts, Selected)
                     content == trim(Head(selected).text)
                 IN  IF /\ selected # <<>>
                        /\ Head(selected).text # <<>>
                        /\ Len(content) > 10
                        /\ Len(content) < 2000
                     THEN content
                     ELSE bySelector[i + 1]
        Fits(node) ==
            node.class = "p" /\ Len(trim(node.text)) > 20 /\ Len(trim(node.text)) < 2000
        pElements == SelectSeq(el.texts, Fits)
    IN  IF bySelector[1] # <<>> THEN bySelector[1]
        ELSE IF pElements # <<>> THEN trim(Head(pElements).text)
        ELSE <<>>

\* The elements that differ in their outerHTML, in the order given.
RECURSIVE UniqueElements(_, _)
UniqueElements(elements, seenHTML) ==
    IF elements = <<>> THEN <<>>
    ELSE IF Head(elements) \in seenHTML
    THEN UniqueElements(Tail(elements), seenHTML)
    ELSE <<Head(elements)>>
            \o UniqueElements(Tail(elements), seenHTML \cup {Head(elements)})

\* The record a scoring pass makes of an element.
Scored(reviewer, rating, text, date) ==
    [reviewer |-> reviewer, rating |-> rating, text |-> text, date |-> date]

\* reviewElements.forEach of extractReviews.
RECURSIVE DynamicLoop(_, _, _)
DynamicLoop(elements, seen, results) ==
    IF elements = <<>> THEN results
    ELSE LET el == Head(elements)
             reviewerName == el.reviewer
             rating == DynamicRating(el)
             reviewText == DynamicText(el)
             key == reviewerName \o <<"|">> \o Take(reviewText, 50) \o <<"|">> \o el.date
         IN  IF el.pagination \/ key \in seen
             THEN DynamicLoop(Tail(elements), seen, results)
             ELSE IF Essential(reviewerName, rating, reviewText)
             THEN DynamicLoop(Tail(elements), seen \cup {key},
                              Append(results, Scored(reviewerName, rating, reviewText, el.date)))
             ELSE DynamicLoop(Tail(elements), seen, results)

\* The Review a scored record is returned as.
AsReview(r) == Review(Str(r.reviewer), r.rating, Str(r.text), Str(r.date))

extractReviews(elements) ==
    LET results == DynamicLoop(UniqueElements(reviewElements(elements), {}), {}, <<>>)
    IN  [i \in 1 .. Len(results) |-> AsReview(results[i])]

\* The rating selectors of extractFiverrReviewsStatic, one after the other:
\* the aria-label of the first element a selector selects, or else the text
\* of all it selects; then the count of the star elements, filled or not.
\* No node of the model has data-testid="review-rating" or an aria-label
\* holding 'rating'.
StaticRating(el) ==
    LET ratingSelectors ==
            <<"[data-testid=review-rating]", ".rating", "[class*=rating]",
              "[aria-label*=rating]", "[aria-label*=star]", "[class*=star]">>
        Selects(selector, node) ==
            CASE selector \in {".rating", "[class*=rating]"} -> node.class = "rating"
              [] selector = "[aria-label*=star]" -> node.label # NoMatch /\ node.labelStars
              [] selector = "[class*=star]" -> node.class = "star"
              [] OTHER -> FALSE
        bySelector[i \in 1 .. Len(ratingSelectors) + 1] ==
            IF i > Len(ratingSelectors) THEN 0
            ELSE LET Selected(node) == Selects(ratingSelectors[i], node)
                     ratingElement == SelectSeq(el.ratings, Selected)
                     Rated(node) == node.text # NoMatch
                     ratingText == SelectSeq(ratingElement, Rated)
                 IN  IF ratingElement # <<>> /\ Head(ratingElement).label # NoMatch
                     THEN MathRound(Head(ratingElement).label)
                     ELSE IF ratingText # <<>>
                     THEN MathRound(Head(ratingText).text)
                     ELSE bySelector[i + 1]
        Star(node) == node.class \in {"star", "svg"}
        starCount == Len(SelectSeq(el.ratings, Star))
    IN  IF bySelector[1] = 0 THEN Min(MaxStars, starCount) * Tenths ELSE bySelector[1]

\* The text selectors of extractFiverrReviewsStatic, one after the other:
\* the texts of all the elements a selector selects, joined as they stand
\* and then trimmed at the two ends (none of the texts of the model holds
\* 'Show More', 'Load More' or 'See All').
StaticText(el) ==
    LET textSelectors ==
            <<{"testid:review-content"}, {"review-content"}, {"review-text"}, {"comment"},
              {"p"}, {"review-content"}, {"review-text"}>>
        bySelector[i \in 1 .. Len(textSelectors) + 1] ==
            IF i > Len(textSelectors) THEN <<>>
            ELSE LET Selected(node) == node.class \in textSelectors[i]
                     textElement == SelectSeq(el.texts, Selected)
                     joined[k \in 0 .. Len(textElement)] ==
                         IF k = 0 THEN <<>> ELSE joined[k - 1] \o textElement[k].text
                     content == trim(joined[Len(textElement)])
                 IN  IF content # <<>> /\ Len(content) > 20
                     THEN content
                     ELSE bySelector[i + 1]
    IN  bySelector[1]

\* $('div, article, section').each of extractFiverrReviewsStatic, in
\* document order; hasStars is the part of the container test that looks
\* at the rating nodes.
RECURSIVE StaticLoop(_, _)
StaticLoop(elements, reviews) ==
    IF elements = <<>> THEN reviews
    ELSE LET el == Head(elements)
             hasStars == \E k \in 1 .. Len(el.ratings) :
                             \/ el.ratings[k].glyph
                             \/ el.ratings[k].class = "star"
                             \/ (el.ratings[k].label # NoMatch /\ el.ratings[k].labelStars)
             reviewer == el.reviewer
             rating == StaticRating(el)
             textContent == StaticText(el)
         IN  IF hasStars /\ el.container /\ Essential(reviewer, rating, textContent)
             THEN StaticLoop(Tail(elements),
                             Append(reviews, Scored(reviewer, rating, textContent, el.date)))
             ELSE StaticLoop(Tail(elements), reviews)

\* reviews.forEach of extractFiverrReviewsStatic: 'Remove duplicates'.
RECURSIVE StaticUnique(_, _, _)
StaticUnique(reviews, seen, uniqueReviews) ==
    IF reviews = <<>> THEN uniqueReviews
    ELSE LET review == Head(reviews)
             identifier == review.reviewer \o <<"-">> \o Take(review.text, 30)
         IN  IF identifier \in seen
             THEN StaticUnique(Tail(reviews), seen, uniqueReviews)
             ELSE StaticUnique(Tail(reviews), seen \cup {identifier},
                               Append(uniqueReviews, review))

\* What extractFiverrReviewsStatic returns for a fetched document that is
\* not a challenge page.
staticReviews(elements) ==
    LET uniqueReviews == StaticUnique(StaticLoop(elements, <<>>), {}, <<>>)
    IN  [i \in 1 .. Len(uniqueReviews) |-> AsReview(uniqueReviews[i])]

InitScore ==
    /\ constructed = TRUE
    /\ windowMs = DefaultWindowMs
    /\ maxRequests = DefaultMaxRequests
    /\ nextSweepAt = SweepIntervalMs
    /\ InitIdle
    /\ candidates \in ElementLists
    /\ scoredBy = "none"
    /\ scored = <<>>
    /\ reviewsIn = <<>>
    /\ reviewsOut = <<>>
    /\ passes = 0
    /\ csvReviews = <<>>
    /\ csv = <<>>
    /\ unswept = EmptyMap
    /\ twin = NoTwin

\* extractReviews(page) runs over the elements of the rendered page.
ScoreDynamic ==
    /\ scoredBy = "none"
    /\ scoredBy' = "dynamic"
    /\ scored' = extractReviews(candidates)
    /\ UNCHANGED <<candidates, reviewsIn, reviewsOut, passes>>
    /\ UNCHANGED <<gateVars, reqs, response, exVars, twinVars, csvReviews, csv>>

\* extractFiverrReviewsStatic runs over the elements of the fetched document.
ScoreStatic ==
    /\ scoredBy = "none"
    /\ scoredBy' = "static"
    /\ scored' = staticReviews(candidates)
    /\ UNCHANGED <<candidates, reviewsIn, reviewsOut, passes>>
    /\ UNCHANGED <<gateVars, reqs, response, exVars, twinVars, csvReviews, csv>>

NextScore ==
    \/ ScoreDynamic
    \/ ScoreStatic

SpecScore == InitScore /\ [][NextScore]_vars

-----------------------------------------------------------------------------
(* deduplicateReviews applied to a list, and again to its own result        *)

MaxListLen == 3

\* Two reviews whose fields differ and whose identifiers are the same string,
\* and a third that differs from the second in its rating only.
HyphenReviews ==
    {Review("mary-ann", 5 * Tenths, "great", "2023-10-15"),
     Review("mary", 5 * Tenths, "ann-great", "2023-10-15"),
     Review("mary", 4 * Tenths, "ann-great", "2023-10-15")}

DedupInputs ==
    UNION {[1 .. n -> SampleReviews \cup HyphenReviews] : n \in 0 .. MaxListLen}

InitDedupe ==
    /\ constructed = TRUE
    /\ windowMs = DefaultWindowMs
    /\ maxRequests = DefaultMaxRequests
    /\ nextSweepAt = SweepIntervalMs
    /\ InitIdle
    /\ candidates = <<>>
    /\ scoredBy = "none"
    /\ scored = <<>>
    /\ reviewsIn \in DedupInputs
    /\ reviewsOut = <<>>
    /\ passes = 0
    /\ csvReviews = <<>>
    /\ csv = <<>>
    /\ unswept = EmptyMap
    /\ twin = NoTwin

\* deduplicateReviews is called with the list, and then with its own result.
Deduplicate ==
    /\ passes < 2
    /\ passes' = passes + 1
    /\ reviewsOut' = deduplicateReviews(IF passes = 0 THEN reviewsIn ELSE reviewsOut)
    /\ UNCHANGED reviewsIn
    /\ UNCHANGED <<candidates, scoredBy, scored>>
    /\ UNCHANGED <<gateVars, reqs, response, exVars, twinVars, csvReviews, csv>>

NextDedupe == Deduplicate

SpecDedupe == InitDedupe /\ [][NextDedupe]_vars

-----------------------------------------------------------------------------
(* reviewsToCSV                                                             *)

MaxRows == 2

\* A text of a review that is serialized is a sequence of pieces; a double
\* quote is always a piece of its own.  Str gives the string it stands for.
Quote == "\""

\* A review with a country field.
WithCountry(review, country) ==
    [f \in (DOMAIN review) \cup {"country"} |->
        IF f = "country" THEN country ELSE review[f]]

JohnDoe == Review(<<"John Doe">>, 5 * Tenths, <<"Great service!">>, <<"2023-10-15">>)
JaneSmith == Review(<<"Jane Smith">>, 4 * Tenths, <<"Good work">>, <<"2023-10-10">>)

CsvReviews ==
    {JohnDoe,
     JaneSmith,
     [JohnDoe EXCEPT !.text = <<"Great service! ", Quote, "Highly recommended", Quote>>],
     [JaneSmith EXCEPT !.reviewer = <<Quote, "Jane", Quote, " Smith">>, !.rating = 45],
     [JohnDoe EXCEPT !.date = <<"Oct ", Quote, "15", Quote>>],
     WithCountry(JohnDoe, <<"United States">>),
     WithCountry(JaneSmith, <<>>),
     WithCountry(JaneSmith, <<"Cote d", Quote, "Ivoire">>)}

CsvInputs == UNION {[1 .. n -> CsvReviews] : n \in 0 .. MaxRows}

\* text.replace(/"/g, '""')
RECURSIVE ReplaceQuotes(_)
ReplaceQuotes(text) ==
    IF text = <<>> THEN <<>>
    ELSE (IF Head(text) = Quote THEN <<Quote, Quote>> ELSE <<Head(text)>>)
            \o ReplaceQuotes(Tail(text))

\* The string a template literal makes of a number.
Digits == <<"0", "1", "2", "3", "4", "5", "6", "7", "8", "9">>

RECURSIVE Decimal(_)
Decimal(n) ==
    IF n < 10 THEN Digits[n + 1]
    ELSE Decimal(n \div 10) \o Digits[(n % 10) + 1]

NumberText(rating) ==
    IF rating % Tenths = 0 THEN Decimal(rating \div Tenths)
    ELSE Decimal(rating \div Tenths) \o "." \o Digits[(rating % Tenths) + 1]

\* (review as any).country || ''
Country(review) == IF "country" \in DOMAIN review THEN review.country ELSE <<>>

\* Array.prototype.join
RECURSIVE Join(_, _)
Join(items, separator) ==
    IF items = <<>> THEN <<>>
    ELSE IF Len(items) = 1 THEN items[1]
    ELSE items[1] \o <<separator>> \o Join(Tail(items), separator)

headers ==
    <<<<"Reviewer Name">>, <<"Rating">>, <<"Review Text">>, <<"Review Date">>,
      <<"Country">>>>

\* The template literal that makes the row of a review.
Row(review) ==
    <<Quote>> \o ReplaceQuotes(review.reviewer) \o <<Quote, ",">>
        \o <<NumberText(review.rating), ",">>
        \o <<Quote>> \o ReplaceQuotes(review.text) \o <<Quote, ",">>
        \o <<Quote>> \o review.date \o <<Quote, ",">>
        \o <<Quote>> \o Country(review) \o <<Quote>>

\* Mutant: no reviews, no header.
reviewsToCSVBare(reviews) ==
    Join([i \in 1 .. Len(reviews) |-> Row(reviews[i])], "\n")

reviewsToCSV(reviews) ==
    Join(<<Join(headers, ",")>> \o [i \in 1 .. Len(reviews) |-> Row(reviews[i])], "\n")

InitCsv ==
    /\ constructed = TRUE
    /\ windowMs = DefaultWindowMs
    /\ maxRequests = DefaultMaxRequests
    /\ nextSweepAt = SweepIntervalMs
    /\ InitIdle
    /\ candidates = <<>>
    /\ scoredBy = "none"
    /\ scored = <<>>
    /\ reviewsIn = <<>>
    /\ reviewsOut = <<>>
    /\ passes = 0
    /\ csvReviews \in CsvInputs
    /\ csv = <<>>
    /\ unswept = EmptyMap
    /\ twin = NoTwin

\* reviewsToCSV(reviews) is called.
Serialize ==
    /\ csv = <<>>
    /\ csv' = reviewsToCSV(csvReviews)
    /\ UNCHANGED <<candidates, scoredBy, scored, reviewsIn, reviewsOut, passes, csvReviews>>
    /\ UNCHANGED <<gateVars, reqs, response, exVars, twinVars>>

NextCsv == Serialize

SpecCsv == InitCsv /\ [][NextCsv]_vars

-----------------------------------------------------------------------------
(* Two rate limiters that serve the same calls at the same times: on one    *)
(* of them cleanup() runs at any moment, on the other it never runs         *)

Twin(op, clientId, swept, unsweptValue) ==
    [op |-> op, client |-> clientId, swept |-> swept, unswept |-> unsweptValue]

\* Time passes.
TwinTick(d) ==
    /\ clock + d <= MaxClock
    /\ clock' = clock + d
    /\ UNCHANGED <<constructed, windowMs, maxRequests, limits, nextSweepAt,
                   last, callsInWindow, admitted, reqs, response>>
    /\ UNCHANGED <<exVars, pureVars, twinVars>>

TwinIsRateLimited(clientId) ==
    /\ limits' = isRateLimited(limits, clientId, clock).limits
    /\ unswept' = isRateLimited(unswept, clientId, clock).limits
    /\ twin' = Twin("isRateLimited", clientId,
                    isRateLimited(limits, clientId, clock).limited,
                    isRateLimited(unswept, clientId, clock).limited)
    /\ UNCHANGED <<constructed, windowMs, maxRequests, clock, nextSweepAt,
                   last, callsInWindow, admitted, reqs, response>>
    /\ UNCHANGED <<exVars, pureVars>>

TwinGetRemainingRequests(clientId) ==
    /\ twin' = Twin("getRemainingRequests", clientId,
                    getRemainingRequests(limits, clientId, clock),
                    getRemainingRequests(unswept, clientId, clock))
    /\ UNCHANGED <<constructed, windowMs, maxRequests, limits, clock, nextSweepAt,
                   last, callsInWindow, admitted, reqs, response, unswept>>
    /\ UNCHANGED <<exVars, pureVars>>

\* The call reads the clock at clock and again at clock + d.
TwinGetTimeRemaining(clientId, d) ==
    /\ clock + d <= MaxClock
    /\ twin' = Twin("getTimeRemaining", clientId,
                    getTimeRemaining(limits, clientId, clock, clock + d),
                    getTimeRemaining(unswept, clientId, clock, clock + d))
    /\ clock' = clock + d
    /\ UNCHANGED <<constructed, windowMs, maxRequests, limits, nextSweepAt,
                   last, callsInWindow, admitted, reqs, response, unswept>>
    /\ UNCHANGED <<exVars, pureVars>>

TwinReset(clientId) ==
    /\ limits' = reset(limits, clientId)
    /\ unswept' = reset(unswept, clientId)
    /\ twin' = Twin("reset", clientId, 0, 0)
    /\ UNCHANGED <<constructed, windowMs, maxRequests, clock, nextSweepAt,
                   last, callsInWindow, admitted, reqs, response>>
    /\ UNCHANGED <<exVars, pureVars>>

\* cleanup() runs on the first limiter only.
TwinCleanup ==
    /\ limits' = cleanup(limits, clock)
    /\ twin' = Twin("cleanup", "", 0, 0)
    /\ UNCHANGED <<constructed, windowMs, maxRequests, clock, nextSweepAt,
                   last, callsInWindow, admitted, reqs, response, unswept>>
    /\ UNCHANGED <<exVars, pureVars>>

NextTwin ==
    \/ \E d \in Delays : TwinTick(d)
    \/ \E c \in Clients : TwinIsRateLimited(c)
    \/ \E c \in Clients : TwinGetRemainingRequests(c)
    \/ \E c \in Clients, d \in InCallDelays : TwinGetTimeRemaining(c, d)
    \/ \E c \in Clients : TwinReset(c)
    \/ TwinCleanup

SpecTwin == Init /\ [][NextTwin]_vars

-----------------------------------------------------------------------------
(* Properties of the rate limiter                                           *)

\* C1: inside one window the 1st to N-th isRateLimited calls of a client
\* return false and the (N+1)-th and every later call return true.
C1_AdmitsExactlyCapacity ==
    \A c \in Clients :
        (last.op = "isRateLimited" /\ last.client = c)
            => (last.limited <=> callsInWindow[c] > maxRequests)

C1_Witness ==
    \E c \in Clients :
        /\ last.op = "isRateLimited" /\ last.client = c
        /\ callsInWindow[c] = maxRequests + 2
        /\ last.limited

\* C3: an isRateLimited call that finds the client's entry expired returns
\* false and replaces the entry by {count: 1, resetTime: now + windowMs},
\* whatever the old count was.
C3_ExpiredWindowRestarts ==
    \A c \in Clients :
        (last.op = "isRateLimited" /\ last.client = c /\ last.preState = "expired")
            => /\ ~last.limited
               /\ c \in DOMAIN limits
               /\ limits[c] = [count |-> 1, resetTime |-> last.now + windowMs]

C3_Witness ==
    \E c \in Clients :
        /\ last.op = "isRateLimited" /\ last.client = c
        /\ last.preState = "expired" /\ last.preCount = maxRequests
        /\ ~last.limited /\ limits[c].count = 1

\* C4: getRemainingRequests returns maxRequests - count for a live window and
\* maxRequests otherwise; after k admitted calls it is maxRequests - k, and
\* it is never negative.
C4_RemainingRequests ==
    \A c \in Clients :
        (last.op = "getRemainingRequests" /\ last.client = c)
            => /\ last.value = IF last.preState = "live"
                               THEN maxRequests - last.preCount
                               ELSE maxRequests
               /\ last.preState = "live" => last.value = maxRequests - admitted[c]
               /\ last.value >= 0

C4_Witness ==
    \E c \in Clients :
        /\ last.op = "getRemainingRequests" /\ last.client = c
        /\ last.preState = "live" /\ admitted[c] = maxRequests
        /\ last.value = 0

\* The entry of a client; a count of 0 stands for no entry.
EntryOf(lim, c) == IF c \in DOMAIN lim THEN lim[c] ELSE [count |-> 0, resetTime |-> 0 - 1]

\* C5: isRateLimited(c1) and reset(c1) leave the entry of every other client
\* c2 as it was, and what isRateLimited(c2) returns depends on the entry of
\* c2 alone.
C5_ClientsIndependent ==
    [][\A c1, c2 \in Clients :
          /\ (c1 # c2 /\ (CallIsRateLimited(c1) \/ CallReset(c1)))
                => EntryOf(limits', c2) = EntryOf(limits, c2)
          /\ CallIsRateLimited(c2)
                => (last'.limited <=>
                      (PreState(limits, c2, clock) = "live"
                          /\ limits[c2].count >= maxRequests))]_vars

C5_Witness ==
    \E c1, c2 \in Clients :
        /\ c1 # c2
        /\ PreState(limits, c1, clock) = "live" /\ limits[c1].count = maxRequests
        /\ last.op = "isRateLimited" /\ last.client = c2 /\ ~last.limited

\* C7: a sweep at time now leaves no entry with resetTime <= now, keeps every
\* entry with resetTime > now unchanged, and re-arms the timer one interval
\* ahead; a sweep is never scheduled further than one interval ahead.
C7_SweepRemovesExpiredOnly ==
    [][/\ Sweep =>
            /\ \A c \in DOMAIN limits' : limits'[c].resetTime > clock
            /\ \A c \in DOMAIN limits :
                   limits[c].resetTime > clock
                       => (c \in DOMAIN limits' /\ limits'[c] = limits[c])
            /\ nextSweepAt' = clock + SweepIntervalMs
       /\ constructed' => nextSweepAt' <= clock' + SweepIntervalMs]_vars

C7_Witness ==
    /\ last.op = "cleanup"
    /\ last.value = 1
    /\ Cardinality(DOMAIN limits) = 1

\* C2: however the handlers of concurrent requests interleave, a client is
\* never admitted more than maxRequests times within one window.
C2_NeverAdmittedPastCapacity ==
    \A c \in Clients : admitted[c] <= maxRequests

C2_Witness ==
    \E c \in Clients :
        /\ reqs[c].json + reqs[c].extract >= 2
        /\ admitted[c] = maxRequests
        /\ last.op = "isRateLimited" /\ last.client = c /\ last.limited
        /\ response.status = 429

\* C6: every response 429 carries a retry-after that is greater than 0 and
\* at most windowMs.
C6_RetryAfterPositive ==
    response.status = 429
        => (response.retryAfter > 0 /\ response.retryAfter <= windowMs)

\* C8: no RateLimiter exists whose window length or capacity is not positive.
C8_ConfigurationValidated ==
    constructed => (windowMs > 0 /\ maxRequests > 0)

-----------------------------------------------------------------------------
(* Properties of the orchestrator                                           *)

\* C9: when extractFiverrReviews returns a non-empty list, that list is the
\* result and extractFiverrReviewsStatic is not invoked.
C9_DynamicResultIsAuthoritative ==
    (exDyn.kind = "ok" /\ Len(exDyn.reviews) > 0)
        => /\ exPc = "returned"
           /\ exResult = Returned(exDyn.reviews)
           /\ StaticInvocations = 0

C9_Witness ==
    /\ exDyn.kind = "ok" /\ Len(exDyn.reviews) = 1
    /\ exPc = "returned"
    /\ exResult.reviews = exDyn.reviews

\* C10: when extractFiverrReviews returns an empty list and
\* extractFiverrReviewsStatic returns a list L, both without error, the
\* result is exactly L and nothing is thrown.
C10_EmptyDynamicReturnsStatic ==
    (/\ exDyn.kind = "ok" /\ exDyn.reviews = <<>>
     /\ Len(exStatic) >= 1 /\ exStatic[1].kind = "ok")
        => /\ exPc = "returned"
           /\ exResult = Returned(exStatic[1].reviews)
           /\ Len(exStatic) = 1

C10_Witness ==
    /\ exDyn.kind = "ok" /\ exDyn.reviews = <<>>
    /\ Len(exStatic) = 1 /\ exStatic[1].kind = "ok" /\ Len(exStatic[1].reviews) = 2
    /\ exResult = Returned(exStatic[1].reviews)

\* C11: when extractFiverrReviews throws and extractFiverrReviewsStatic then
\* returns records, those records are returned and nothing is thrown.
C11_FallbackRecordsSwallowError ==
    (/\ exDyn.kind = "error"
     /\ Len(exStatic) >= 1 /\ exStatic[1].kind = "ok"
     /\ Len(exStatic[1].reviews) > 0)
        => /\ exPc = "returned"
           /\ exResult = Returned(exStatic[1].reviews)
           /\ Len(exStatic) = 1

C11_Witness ==
    /\ exDyn.kind = "error"
    /\ Len(exStatic) = 1 /\ exStatic[1].kind = "ok" /\ Len(exStatic[1].reviews) = 2
    /\ exResult = Returned(exStatic[1].reviews)

\* C12: when extractFiverrReviews and extractFiverrReviewsStatic both throw,
\* the call throws the error of extractFiverrReviews, not the fallback's.
C12_BothFailThrowsDynamicError ==
    (/\ exDyn.kind = "error"
     /\ Len(exStatic) >= 1 /\ exStatic[1].kind = "error")
        => /\ exPc = "thrown"
           /\ exResult = Thrown(exDyn.message)
           /\ exResult.message # exStatic[1].message

C12_Witness ==
    /\ exDyn = Error("Failed to extract reviews: Navigation timeout of 30000 ms exceeded")
    /\ Len(exStatic) = 1 /\ exStatic[1].kind = "error"
    /\ exPc = "thrown"
    /\ exResult.message = exDyn.message

\* C13: the call throws only if every tier that ran threw: when a tier
\* completed without error, even with an empty list, a list is returned.
C13_ThrowsOnlyIfBothTiersThrow ==
    (/\ exPc \in {"returned", "thrown"}
     /\ \/ exDyn.kind = "ok"
        \/ \E i \in 1 .. Len(exStatic) : exStatic[i].kind = "ok")
        => exPc = "returned"

\* C14: once extractFiverrReviews has returned or thrown, a browser it
\* launched is closed, whichever step ended the run.
C14_BrowserClosedOnEveryExit ==
    session.pc = "done" => session.browser # "open"

\* C15: a url that is empty or does not contain 'fiverr.com' is refused
\* before any extraction attempt, by the POST handler and by both extractors:
\* no browser is launched for it and no static fetch is issued.
C15_BadUrlRejectedBeforeAnyAttempt ==
    (caller # "none" /\ (exUrl = <<>> \/ ~Includes(exUrl, "fiverr.com")))
        => /\ session.browser = "none"
           /\ session.pc \in {"none", "done"}
           /\ fetches = 0
           /\ exDyn.kind # "ok"
           /\ \A i \in 1 .. Len(exStatic) : exStatic[i].kind = "error"
           /\ caller = "POST" => (exPc = "idle" /\ answer.status \in {400, 500}
                                    /\ session.pc = "none" /\ exStatic = <<>>)

C15_Witness ==
    /\ exUrl = OtherUrl
    /\ caller = "script"
    /\ exPc = "thrown"
    /\ Len(exStatic) = 1
    /\ fetches = 0

\* C16: every record a scoring pass emits has a non-empty reviewer, a
\* rating above zero and a non-empty text, and is made of an element that
\* has a reviewer, rating nodes and text nodes; an element that lacks one
\* of them is left out and the pass still returns its list.
C16_EmittedRecordsAdmissible ==
    scoredBy # "none" =>
        /\ Len(scored) <= Len(candidates)
        /\ \A i \in 1 .. Len(scored) :
               /\ scored[i].reviewer # ""
               /\ scored[i].rating > 0
               /\ scored[i].text # ""
               /\ \E j \in 1 .. Len(candidates) :
                      /\ scored[i].reviewer = Str(candidates[j].reviewer)
                      /\ candidates[j].ratings # <<>>
                      /\ candidates[j].texts # <<>>
                      /\ scored[i].text \in {Str(DynamicText(candidates[j])),
                                             Str(StaticText(candidates[j]))}

C16_Witness ==
    /\ scoredBy = "static"
    /\ Len(candidates) = 2
    /\ candidates[1].texts = <<>>
    /\ Len(scored) = 1
    /\ scored[1].text = Str(candidates[2].texts[1].text)

\* C17: every record a scoring pass emits has a whole number of stars from
\* 1 to 5 as its rating, whatever the page reports.
C17_RatingIsWholeOneToFive ==
    \A i \in 1 .. Len(scored) :
        scored[i].rating \in {n * Tenths : n \in 1 .. MaxStars}

\* C18: the result of deduplicateReviews is the input with every record
\* removed whose identifier an earlier record has: the records kept are the
\* first of each identifier, in input order and with their fields as in the
\* input, and the input list is left as it was.
C18_FirstOccurrencesInOrder ==
    [][(passes = 0 /\ passes' = 1) =>
          LET first == {i \in 1 .. Len(reviewsIn) :
                           \A j \in 1 .. i - 1 :
                               Identifier(reviewsIn[j]) # Identifier(reviewsIn[i])}
          IN  /\ reviewsIn' = reviewsIn
              /\ Len(reviewsOut') = Cardinality(first)
              /\ \A k \in 1 .. Len(reviewsOut') :
                     \E i \in first :
                         /\ reviewsOut'[k] = reviewsIn[i]
                         /\ Cardinality({j \in first : j <= i}) = k]_vars

C18_Witness ==
    /\ passes = 1
    /\ Len(reviewsIn) = 3
    /\ reviewsIn[1] = reviewsIn[3] /\ reviewsIn[1] # reviewsIn[2]
    /\ reviewsIn[1].reviewer = "John Doe" /\ reviewsIn[2].reviewer = "Jane Smith"
    /\ reviewsOut = <<reviewsIn[1], reviewsIn[2]>>

\* C19: deduplicateReviews applied to its own result returns that result,
\* and a result is never longer than the list it was made from.
C19_IdempotentAndNotLonger ==
    [][/\ Len(reviewsOut') <= Len(reviewsIn')
       /\ (passes = 1 /\ passes' = 2) => reviewsOut' = reviewsOut]_vars

C19_Witness ==
    /\ passes = 2
    /\ Len(reviewsIn) = 3
    /\ Len(reviewsOut) = 1

\* C20: deduplicateReviews takes two records for the same review exactly when
\* their reviewer, text and date are equal: every (reviewer, text, date) of
\* the input is in the result, once.
C20_SameExactlyWhenTuplesEqual ==
    LET Tuple(review) == <<review.reviewer, review.text, review.date>>
    IN  passes >= 1 =>
            /\ \A i \in 1 .. Len(reviewsIn) :
                   \E k \in 1 .. Len(reviewsOut) : Tuple(reviewsOut[k]) = Tuple(reviewsIn[i])
            /\ \A k, l \in 1 .. Len(reviewsOut) :
                   Tuple(reviewsOut[k]) = Tuple(reviewsOut[l]) => k = l

\* C21: a list a scoring pass returns never holds two records with the same
\* reviewer, text and date, so deduplicateReviews returns it as it is.
C21_ReturnedListIsDeduplicated ==
    scoredBy # "none" =>
        /\ \A i, j \in 1 .. Len(scored) :
               (/\ scored[i].reviewer = scored[j].reviewer
                /\ scored[i].text = scored[j].text
                /\ scored[i].date = scored[j].date) => i = j
        /\ deduplicateReviews(scored) = scored

\* C22: the result of reviewsToCSV starts with the header row, also for no
\* reviews: the header parses into the five column names for reviewer,
\* rating, text, date and country, and n reviews give the header and n rows
\* with one newline between two lines and none at the end.
C22_HeaderFirstAlways ==
    LET newlines == {i \in 1 .. Len(csv) : csv[i] = "\n"}
        headerEnd == IF newlines = {} THEN Len(csv)
                     ELSE (CHOOSE i \in newlines : \A j \in newlines : i <= j) - 1
        header == SubSeq(csv, 1, headerEnd)
    IN  csv # <<>> =>
            /\ Len(header) = 9
            /\ \A i \in 1 .. 4 : header[2 * i] = ","
            /\ [i \in 1 .. 5 |-> header[2 * i - 1]]
                   = <<"Reviewer Name", "Rating", "Review Text", "Review Date", "Country">>
            /\ Cardinality(newlines) = Len(csvReviews)
            /\ \A i \in newlines : i < Len(csv) /\ i + 1 \notin newlines
            /\ csvReviews = <<>> =>
                   Str(csv) = "Reviewer Name,Rating,Review Text,Review Date,Country"

C22_Witness ==
    /\ csvReviews = <<>>
    /\ Str(csv) = "Reviewer Name,Rating,Review Text,Review Date,Country"

\* C23: in every row of the result of reviewsToCSV each of the five fields
\* (reviewer, rating, text, date, country) stands between double quotes with
\* every double quote inside it doubled, and a review without a country has
\* "" as its fifth field.
C23_EveryFieldQuoted ==
    LET Wrapped(field) == <<Quote>> \o ReplaceQuotes(field) \o <<Quote>>
        QuotedRow(review) ==
            Join(<<Wrapped(review.reviewer), Wrapped(<<NumberText(review.rating)>>),
                   Wrapped(review.text), Wrapped(review.date),
                   Wrapped(IF "country" \in DOMAIN review THEN review.country ELSE <<>>)>>,
                 ",")
    IN  csv # <<>> =>
            Str(csv) = Str(Join(<<Join(headers, ",")>>
                                    \o [i \in 1 .. Len(csvReviews) |-> QuotedRow(csvReviews[i])],
                                "\n"))

\* C24: for reviews without a country the result of reviewsToCSV is
\* the line 'Reviewer Name,Rating,Review Text,Review Date' and one line
\* "reviewer",rating,"text","date" of four fields for each review.
C24_FourColumnsWithoutCountry ==
    LET FourFields(review) ==
            <<Quote>> \o ReplaceQuotes(review.reviewer) \o <<Quote, ",">>
                \o <<NumberText(review.rating), ",">>
                \o <<Quote>> \o ReplaceQuotes(review.text) \o <<Quote, ",">>
                \o <<Quote>> \o review.date \o <<Quote>>
    IN  (csv # <<>> /\ \A i \in 1 .. Len(csvReviews) : "country" \notin DOMAIN csvReviews[i])
            => Str(csv) = Str(Join(<<<<"Reviewer Name,Rating,Review Text,Review Date">>>>
                                       \o [i \in 1 .. Len(csvReviews) |-> FourFields(csvReviews[i])],
                                   "\n"))

\* C25: an isRateLimited call that returns true leaves the whole map as it
\* was: no count is raised and no resetTime is moved, so a client that is
\* rejected again and again is admitted again at the same moment.
C25_RejectionLeavesMapUnchanged ==
    [][(last'.op = "isRateLimited" /\ last'.limited) => limits' = limits]_vars

C25_Witness ==
    /\ last.op = "isRateLimited" /\ last.limited
    /\ last.now = SweepIntervalMs
    /\ callsInWindow[last.client] = DefaultMaxRequests + 2
    /\ limits[last.client] = [count |-> DefaultMaxRequests, resetTime |-> DefaultWindowMs]

\* C26: the loop of loadAllReviews terminates after at most 50 clicks: every
\* await of a pass brings the loop nearer to its end (LoadRank, a bound on
\* the awaits still ahead with eight for each click that may come, falls), the
\* click count never passes 50, a pass that finds no button leaves the loop
\* and so does the pass of the 50th click.  No step of the loop raises an
\* error: the run leaves the loop only for the sleep that ends
\* loadAllReviews, with the browser open, and goes on to the final scroll
\* and extractReviews.
C26_RevealLoopBounded ==
    [][LET LoadPcs == {"sleepPass", "loopScroll", "sleepScrolledTo", "findButton",
                       "click", "sleepClicked", "scrollBy", "sleepRendered"}
           LoadAhead(pc) ==
               CASE pc = "sleepPass" -> 8
                 [] pc = "loopScroll" -> 7
                 [] pc = "sleepScrolledTo" -> 6
                 [] pc = "findButton" -> 5
                 [] pc = "click" -> 4
                 [] pc = "sleepClicked" -> 11
                 [] pc = "scrollBy" -> 10
                 [] pc = "sleepRendered" -> 9
                 [] OTHER -> 0
           LoadRank(s) == (50 - s.clicks) * 8 + LoadAhead(s.pc)
       IN  session.pc \in LoadPcs =>
              /\ session.clicks <= 50 /\ session'.clicks <= 50
              /\ session'.pc \in LoadPcs \cup {"sleepFinished"}
              /\ LoadRank(session') < LoadRank(session)
              /\ LoadRank(session') >= 0
              /\ session'.clicks \in {session.clicks, session.clicks + 1}
              /\ LoadFindButton("none")
                     => (session'.pc = "sleepFinished" /\ session'.clicks = session.clicks)
              /\ (session.pc = "sleepRendered" /\ session.clicks = 50)
                     => session'.pc = "sleepFinished"
              /\ session'.error = ""
              /\ session'.browser = "open"
              /\ exPc' = "dynamic" /\ exDyn' = NoOutcome]_vars

C26_Witness ==
    /\ session.pc = "scoring"
    /\ session.clicks = 50
    /\ session.error = ""
    /\ session.browser = "open"
    /\ exPc = "dynamic"

\* C27: when the wait for a detected challenge times out, the run of
\* extractFiverrReviews does not fail: the timeout is swallowed and the run
\* goes on with the sleep before the reveal loop, the browser open; and when
\* no later step fails, the run returns the records of the scoring pass.
C27_ChallengeTimeoutProceeds ==
    [][/\ DynChallengeWait(FALSE)
           => /\ session.challenge
              /\ session'.waited = "timeout"
              /\ session'.pc = "sleepSettled"
              /\ session'.error = ""
              /\ session'.browser = "open"
              /\ exPc' = "dynamic" /\ exDyn' = NoOutcome
       /\ (session'.waited = "timeout" /\ session'.pc = "done" /\ session'.error = "")
           => (exDyn' = Ok(session'.reviews) /\ session'.browser = "closed")
       /\ session'.waited = "timeout"
           => session'.error # "Waiting failed: 120000ms exceeded"]_vars

C27_Witness ==
    /\ session.waited = "timeout"
    /\ session.pc = "done"
    /\ session.error = ""
    /\ session.clicks = 1
    /\ exDyn.kind = "ok" /\ Len(exDyn.reviews) = 1
    /\ exPc = "returned"

\* C28: a title is taken for a challenge page exactly when it holds, in any
\* letter case, one of 'human', 'touch', 'captcha', 'security', and for one
\* title extractFiverrReviews waits for the challenge exactly when
\* extractFiverrReviewsStatic returns [] without scoring.
C28_ChallengeMarkersAgree ==
    LET marked == \E i \in 1 .. Len(session.title) :
                      toLowerCase(session.title[i])
                          \in {"human", "touch", "captcha", "security"}
    IN  session.title # <<>> =>
            /\ session.challenge <=> marked
            /\ StaticChallengeTitle(session.title) <=> marked
            /\ session.challenge <=> StaticChallengeTitle(session.title)

\* C29: during one call of extractFiverrReviewsWithFallback,
\* extractFiverrReviewsStatic is called at most once and at most one static
\* fetch is issued, whatever the two extractors return or throw.
C29_StaticInvokedAtMostOnce ==
    StaticInvocations <= 1 /\ fetches <= 1

\* C30: cleanup() is invisible to the callers: whenever cleanup runs between
\* the calls, every isRateLimited, getRemainingRequests, getTimeRemaining
\* and reset call returns what it returns when cleanup never runs, and the
\* entries that are still live are the same.
C30_SweepInvisible ==
    /\ twin.swept = twin.unswept
    /\ DOMAIN limits \subseteq DOMAIN unswept
    /\ \A c \in DOMAIN unswept :
           IF c \in DOMAIN limits THEN limits[c] = unswept[c]
           ELSE unswept[c].resetTime <= clock

C30_Witness ==
    /\ twin.op = "getRemainingRequests"
    /\ twin.swept = DefaultMaxRequests
    /\ twin.client \notin DOMAIN limits
    /\ twin.client \in DOMAIN unswept
    /\ unswept[twin.client].count = DefaultMaxRequests
    /\ DOMAIN limits # {}

====
